---- MODULE Spec2Model ----
(***************************************************************************)
(* A model of omni_table_demo.py: the SayCan-style decision node of the    *)
(* omnidirectional table robot.                                            *)
(*                                                                         *)
(* Units.  Python floats are modelled as fixed-point integers:             *)
(*   - value-table entries in hundredths          (0.45  -> 45)            *)
(*   - confidence in tenths                       (0.5   -> 5)             *)
(*   - scores (value * confidence) in thousandths (0.225 -> 225)           *)
(*   - speeds and Twist components in 1/10000     (0.2   -> 2000)          *)
(* Texts are TLA+ strings; "in" and ".lower()" are computed character by   *)
(* character.  A proposal is what proposal[0]['generated_text'] reads: a   *)
(* one-element tuple holding a record with a generated_text field.         *)
(***************************************************************************)
EXTENDS Integers, Sequences, FiniteSets, TLC

VARIABLES
    description,   \* self.context.description (RobotContext)
    published,     \* Twists handed to self.publisher.publish, oldest first
    alive,         \* rclpy.spin is still running the node's callbacks
    updates,       \* log of the robot_context messages delivered so far
    samples,       \* number of sound_localization messages delivered so far
    angle,         \* msg.data[0] of the sample last handed to sound_callback
    confidence,    \* msg.data[1] of that sample (tenths)
    proposals,     \* what language_model.generate returned for it
    prompt,        \* the prompt select_action built for it
    promptAt,      \* Len(updates) when that sample was delivered
    outcome,       \* "none" | "published" | "raised": how its callback ended
    action,        \* the Action select_action returned ("none" before)
    twist,         \* the Twist get_twist_for_action built ("none" before)
    speed,         \* the speed argument of get_twist_for_action
    pc             \* "spin" in the node; "call"/"done" for one function call

vars == <<description, published, alive, updates, samples, angle, confidence,
          proposals, prompt, promptAt, outcome, action, twist, speed, pc>>

-----------------------------------------------------------------------------
(* Bounds of the model *)

MaxCandidates == 2      \* proposals per generate call, select_action alone
MaxUpdates == 2         \* robot_context messages per run
MaxSamples == 2         \* sound_localization messages per run
MaxSpeed == 30          \* |speed| range tried beside DEFAULT_SPEED

-----------------------------------------------------------------------------
(* Enum Action, in definition order (the order "for action in Action" uses) *)

Action ==
    << "MOVE_FORWARD", "MOVE_BACKWARD", "MOVE_LEFT", "MOVE_RIGHT",
       "MOVE_FORWARD_LEFT", "MOVE_FORWARD_RIGHT",
       "MOVE_BACKWARD_LEFT", "MOVE_BACKWARD_RIGHT",
       "SPIN_CLOCKWISE", "SPIN_COUNTERCLOCKWISE", "STOP" >>

ActionSet == { Action[i] : i \in 1..Len(Action) }

\* A plausible slip: the keywords written as words separated by spaces.
value_spaces(a) ==
    CASE a = "MOVE_FORWARD"          -> "move forward"
      [] a = "MOVE_BACKWARD"         -> "move backward"
      [] a = "MOVE_LEFT"             -> "move left"
      [] a = "MOVE_RIGHT"            -> "move right"
      [] a = "MOVE_FORWARD_LEFT"     -> "move forward left"
      [] a = "MOVE_FORWARD_RIGHT"    -> "move forward right"
      [] a = "MOVE_BACKWARD_LEFT"    -> "move backward left"
      [] a = "MOVE_BACKWARD_RIGHT"   -> "move backward right"
      [] a = "SPIN_CLOCKWISE"        -> "spin clockwise"
      [] a = "SPIN_COUNTERCLOCKWISE" -> "spin counterclockwise"
      [] a = "STOP"                  -> "stop"

\* action.value
value(a) ==
    CASE a = "MOVE_FORWARD"          -> "move_forward"
      [] a = "MOVE_BACKWARD"         -> "move_backward"
      [] a = "MOVE_LEFT"             -> "move_left"
      [] a = "MOVE_RIGHT"            -> "move_right"
      [] a = "MOVE_FORWARD_LEFT"     -> "move_forward_left"
      [] a = "MOVE_FORWARD_RIGHT"    -> "move_forward_right"
      [] a = "MOVE_BACKWARD_LEFT"    -> "move_backward_left"
      [] a = "MOVE_BACKWARD_RIGHT"   -> "move_backward_right"
      [] a = "SPIN_CLOCKWISE"        -> "spin_clockwise"
      [] a = "SPIN_COUNTERCLOCKWISE" -> "spin_counterclockwise"
      [] a = "STOP"                  -> "stop"

-----------------------------------------------------------------------------
(* Constants *)

DEFAULT_SPEED == 2000       \* 0.2
DIAGONAL_FACTOR == 7071     \* math.cos(math.pi/4) = 0.7071...
Unit == 100 * 100           \* fixed-point resolution of speeds and factors

Abs(n) == IF n < 0 THEN -n ELSE n

\* Float product of two fixed-point numbers.  IEEE rounding is symmetric in
\* the sign, so (-a) * b = -(a * b) exactly; the magnitude is truncated.
FMul(a, b) ==
    LET m == (Abs(a) * Abs(b)) \div Unit
    IN  IF (a < 0) = (b < 0) THEN m ELSE -m

-----------------------------------------------------------------------------
(* SimpleValueFunction *)

\* A plausible slip: MOVE_FORWARD weighted like the other axis moves.
values_flat ==
    [ a \in ActionSet |->
        CASE a \in {"MOVE_FORWARD", "MOVE_BACKWARD", "MOVE_LEFT", "MOVE_RIGHT"} -> 40
          [] a \in {"MOVE_FORWARD_LEFT", "MOVE_FORWARD_RIGHT"}   -> 45
          [] a \in {"MOVE_BACKWARD_LEFT", "MOVE_BACKWARD_RIGHT"} -> 35
          [] a \in {"SPIN_CLOCKWISE", "SPIN_COUNTERCLOCKWISE"}   -> 30
          [] a = "STOP"                                          -> 10 ]

\* self.values
values ==
    [ a \in ActionSet |->
        CASE a = "MOVE_FORWARD"                                  -> 50
          [] a \in {"MOVE_BACKWARD", "MOVE_LEFT", "MOVE_RIGHT"}  -> 40
          [] a \in {"MOVE_FORWARD_LEFT", "MOVE_FORWARD_RIGHT"}   -> 45
          [] a \in {"MOVE_BACKWARD_LEFT", "MOVE_BACKWARD_RIGHT"} -> 35
          [] a \in {"SPIN_CLOCKWISE", "SPIN_COUNTERCLOCKWISE"}   -> 30
          [] a = "STOP"                                          -> 10 ]

\* self.values.get(action, 0.0)
get_value(a) == IF a \in DOMAIN values THEN values[a] ELSE 0

-----------------------------------------------------------------------------
(* str.lower() and the substring test "x in s" *)

LowerChar(c) ==
    CASE c = "A" -> "a" [] c = "B" -> "b" [] c = "C" -> "c" [] c = "D" -> "d"
      [] c = "E" -> "e" [] c = "F" -> "f" [] c = "G" -> "g" [] c = "H" -> "h"
      [] c = "I" -> "i" [] c = "J" -> "j" [] c = "K" -> "k" [] c = "L" -> "l"
      [] c = "M" -> "m" [] c = "N" -> "n" [] c = "O" -> "o" [] c = "P" -> "p"
      [] c = "Q" -> "q" [] c = "R" -> "r" [] c = "S" -> "s" [] c = "T" -> "t"
      [] c = "U" -> "u" [] c = "V" -> "v" [] c = "W" -> "w" [] c = "X" -> "x"
      [] c = "Y" -> "y" [] c = "Z" -> "z" [] OTHER -> c

RECURSIVE lower(_)
lower(s) ==
    IF Len(s) = 0 THEN ""
    ELSE LowerChar(SubSeq(s, 1, 1)) \o lower(SubSeq(s, 2, Len(s)))

\* x in s
In(x, s) ==
    \E i \in 1..(Len(s) - Len(x) + 1) : SubSeq(s, i, i + Len(x) - 1) = x

-----------------------------------------------------------------------------
(* ActionSelector.select_action *)

Proposal(text) == << [generated_text |-> text] >>

\* proposal[0]['generated_text']  (Python index 0 is the tuple's element 1)
generated_text(proposal) == proposal[1].generated_text

\* The prompt, as the parts the f-string joins.
Prompt(ctx, ang, conf) ==
    << "Context: ", ctx, "\nSound detected at angle ", ang,
       " degrees with confidence ", conf, ". The robot table should" >>

\* The inner loop, from the k-th action on: one (action, score) pair per
\* action whose keyword is in the proposal's lowercased text.
\* (lowered is the proposal's text after .lower(), the same for every k.)
RECURSIVE ScanActions(_, _, _)
ScanActions(lowered, conf, k) ==
    IF k > Len(Action) THEN << >>
    ELSE (IF In(value(Action[k]), lowered)
          THEN << << Action[k], get_value(Action[k]) * conf >> >>
          ELSE << >>)
         \o ScanActions(lowered, conf, k + 1)

\* The outer loop, from the i-th proposal on: the list "scores".
RECURSIVE ScanProposals(_, _, _)
ScanProposals(props, conf, i) ==
    IF i > Len(props) THEN << >>
    ELSE LET lowered == lower(generated_text(props[i]))
         IN  ScanActions(lowered, conf, 1)
             \o ScanProposals(props, conf, i + 1)

\* A plausible slip: the two loops nested the other way round, so that the
\* list is ordered by action first and by proposal second.
RECURSIVE ScanOneAction(_, _, _, _)
ScanOneAction(props, conf, k, i) ==
    IF i > Len(props) THEN << >>
    ELSE (IF In(value(Action[k]), lower(generated_text(props[i])))
          THEN << << Action[k], get_value(Action[k]) * conf >> >>
          ELSE << >>)
         \o ScanOneAction(props, conf, k, i + 1)

RECURSIVE ScanByAction(_, _, _)
ScanByAction(props, conf, k) ==
    IF k > Len(Action) THEN << >>
    ELSE ScanOneAction(props, conf, k, 1) \o ScanByAction(props, conf, k + 1)

ScoresActionMajor(props, conf) == ScanByAction(props, conf, 1)

\* scores, once both loops have run
Scores(props, conf) == ScanProposals(props, conf, 1)

\* A plausible slip: a max that keeps the last of several equal maxima.
RECURSIVE MaxByScoreLast(_, _, _)
MaxByScoreLast(scores, best, i) ==
    IF i > Len(scores) THEN best
    ELSE MaxByScoreLast(scores,
                        IF scores[i][2] >= best[2] THEN scores[i] ELSE best,
                        i + 1)

\* max(scores, key=lambda x: x[1]) from element i on, with the best so far:
\* Python's max replaces its candidate only by a strictly greater key.
RECURSIVE MaxByScore(_, _, _)
MaxByScore(scores, best, i) ==
    IF i > Len(scores) THEN best
    ELSE MaxByScore(scores,
                    IF scores[i][2] > best[2] THEN scores[i] ELSE best,
                    i + 1)

\* A plausible slip: falling back to the first action of the enum.
DefaultActionFirst == Action[1]

\* return Action.STOP
DefaultAction == "STOP"

select_action(props, conf) ==
    LET scores == Scores(props, conf)
    IN  IF Len(scores) > 0
        THEN MaxByScore(scores, scores[1], 2)[1]
        ELSE DefaultAction

-----------------------------------------------------------------------------
(* MotionController.get_twist_for_action *)

Twist(x, y, z) == [linear_x |-> x, linear_y |-> y, angular_z |-> z]

\* Twist()
ZeroTwist == Twist(0, 0, 0)

\* A plausible slip: the two "right" diagonals with linear.y not negated.
get_twist_unsigned(a, s) ==
    CASE a = "MOVE_FORWARD"          -> Twist(s, 0, 0)
      [] a = "MOVE_BACKWARD"         -> Twist(-s, 0, 0)
      [] a = "MOVE_LEFT"             -> Twist(0, s, 0)
      [] a = "MOVE_RIGHT"            -> Twist(0, -s, 0)
      [] a = "MOVE_FORWARD_LEFT"     ->
            Twist(FMul(s, DIAGONAL_FACTOR), FMul(s, DIAGONAL_FACTOR), 0)
      [] a = "MOVE_FORWARD_RIGHT"    ->
            Twist(FMul(s, DIAGONAL_FACTOR), FMul(s, DIAGONAL_FACTOR), 0)
      [] a = "MOVE_BACKWARD_LEFT"    ->
            Twist(FMul(-s, DIAGONAL_FACTOR), FMul(s, DIAGONAL_FACTOR), 0)
      [] a = "MOVE_BACKWARD_RIGHT"   ->
            Twist(FMul(-s, DIAGONAL_FACTOR), FMul(s, DIAGONAL_FACTOR), 0)
      [] a = "SPIN_CLOCKWISE"        -> Twist(0, 0, -s)
      [] a = "SPIN_COUNTERCLOCKWISE" -> Twist(0, 0, s)
      [] OTHER                       -> ZeroTwist

get_twist_for_action(a, s) ==
    CASE a = "MOVE_FORWARD"          -> Twist(s, 0, 0)
      [] a = "MOVE_BACKWARD"         -> Twist(-s, 0, 0)
      [] a = "MOVE_LEFT"             -> Twist(0, s, 0)
      [] a = "MOVE_RIGHT"            -> Twist(0, -s, 0)
      [] a = "MOVE_FORWARD_LEFT"     ->
            Twist(FMul(s, DIAGONAL_FACTOR), FMul(s, DIAGONAL_FACTOR), 0)
      [] a = "MOVE_FORWARD_RIGHT"    ->
            Twist(FMul(s, DIAGONAL_FACTOR), FMul(-s, DIAGONAL_FACTOR), 0)
      [] a = "MOVE_BACKWARD_LEFT"    ->
            Twist(FMul(-s, DIAGONAL_FACTOR), FMul(s, DIAGONAL_FACTOR), 0)
      [] a = "MOVE_BACKWARD_RIGHT"   ->
            Twist(FMul(-s, DIAGONAL_FACTOR), FMul(-s, DIAGONAL_FACTOR), 0)
      [] a = "SPIN_CLOCKWISE"        -> Twist(0, 0, -s)
      [] a = "SPIN_COUNTERCLOCKWISE" -> Twist(0, 0, s)
      [] OTHER                       -> ZeroTwist

-----------------------------------------------------------------------------
(* Inputs *)

SeqsUpTo(S, n) == UNION { [1..k -> S] : k \in 0..n }

\* Texts a language model may generate: every keyword, keywords inside longer
\* texts, upper case, words separated by spaces, and texts with no keyword.
Texts ==
    { "", "unstoppable", "move_forward now",
      "just wait here", "move forward now", "move_forward_left please",
      "spin_clockwise too", "Move_Forward_Right", "go move_backward_left",
      "MOVE_BACKWARD_RIGHT", "move_left", "turn or move_right",
      "spin_counterclockwise", "STOP then move_forward" }


\* Confidences, in tenths: negative, zero, and values in (0, 1].
Confidences == { -5, 0, 1, 5, 9, 10 }

NodeConfidences == { 0, 9 }

Angles == { 0, 45 }

Speeds == ((-MaxSpeed)..MaxSpeed) \cup { DEFAULT_SPEED, -DEFAULT_SPEED }

\* RobotContext.description's default
DefaultDescription == "The robot table is in a quiet room."

ContextTexts == { "quiet room", "noisy hall" }

ProposalLists == SeqsUpTo({ Proposal(t) : t \in Texts }, MaxCandidates)

\* What generate returns inside the node.
NodeProposalLists ==
    { << >>,
      << Proposal("move forward now") >>,
      << Proposal("move_forward now") >>,
      << Proposal("unstoppable"), Proposal("Move_Left or spin_clockwise") >> }

-----------------------------------------------------------------------------
(* The node: OmniTableRobotSayCan under rclpy.spin *)

\* OmniTableRobotSayCan.__init__, then main enters rclpy.spin
Init ==
    /\ description = DefaultDescription
    /\ published = << >>
    /\ alive = TRUE
    /\ updates = << >>
    /\ samples = 0
    /\ angle = 0
    /\ confidence = 0
    /\ proposals = << >>
    /\ prompt = "none"
    /\ promptAt = 0
    /\ outcome = "none"
    /\ action = "none"
    /\ twist = "none"
    /\ speed = DEFAULT_SPEED
    /\ pc = "spin"

\* A plausible slip: only the first update replaces the default description.
update_context_once(ctx, data) == IF ctx = DefaultDescription THEN data ELSE ctx

\* self.context.description = msg.data
update_context(ctx, data) == data

UpdateContext ==
    /\ pc = "spin"
    /\ alive
    /\ Len(updates) < MaxUpdates
    /\ \E data \in ContextTexts :
          /\ description' = update_context(description, data)
          /\ updates' = Append(updates, data)
    /\ UNCHANGED <<published, alive, samples, angle, confidence, proposals,
                   prompt, promptAt, outcome, action, twist, speed, pc>>

\* sound_callback for one sample.  language_model.generate either returns its
\* proposals or raises; nothing in select_action, sound_callback or main
\* catches what it raises (main catches KeyboardInterrupt only), so the
\* exception leaves rclpy.spin and main's finally block destroys the node.
SoundCallback ==
    /\ pc = "spin"
    /\ alive
    /\ samples < MaxSamples
    /\ \E ang \in Angles, conf \in NodeConfidences :
          /\ samples' = samples + 1
          /\ angle' = ang
          /\ confidence' = conf
          /\ prompt' = Prompt(description, ang, conf)
          /\ promptAt' = Len(updates)
          /\ \/ \E props \in NodeProposalLists :
                   /\ proposals' = props
                   /\ action' = select_action(props, conf)
                   /\ twist' = get_twist_for_action(action', speed)
                   /\ published' = Append(published, twist')
                   /\ outcome' = "published"
                   /\ alive' = TRUE
             \/ /\ proposals' = << >>
                /\ outcome' = "raised"
                /\ alive' = FALSE
                /\ UNCHANGED <<action, twist, published>>
    /\ UNCHANGED <<description, updates, speed, pc>>

Next == UpdateContext \/ SoundCallback

Spec == Init /\ [][Next]_vars

-----------------------------------------------------------------------------
(* select_action followed by get_twist_for_action, on its own: the inputs   *)
(* are drawn at the start and one step applies the two functions as         *)
(* sound_callback does.                                                     *)

InitSelect ==
    /\ description = DefaultDescription
    /\ published = << >>
    /\ alive = TRUE
    /\ updates = << >>
    /\ samples = 0
    /\ angle = 45
    /\ confidence \in Confidences
    /\ proposals \in ProposalLists
    /\ prompt = "none"
    /\ promptAt = 0
    /\ outcome = "none"
    /\ action = "none"
    /\ twist = "none"
    /\ speed = DEFAULT_SPEED
    /\ pc = "call"

SelectAction ==
    /\ pc = "call"
    /\ prompt' = Prompt(description, angle, confidence)
    /\ action' = select_action(proposals, confidence)
    /\ twist' = get_twist_for_action(action', speed)
    /\ pc' = "done"
    /\ UNCHANGED <<description, published, alive, updates, samples, angle,
                   confidence, proposals, promptAt, outcome, speed>>

NextSelect == SelectAction

SpecSelect == InitSelect /\ [][NextSelect]_vars

-----------------------------------------------------------------------------
(* get_twist_for_action on its own, over every action and a range of speeds *)

InitTwist ==
    /\ description = DefaultDescription
    /\ published = << >>
    /\ alive = TRUE
    /\ updates = << >>
    /\ samples = 0
    /\ angle = 0
    /\ confidence = 0
    /\ proposals = << >>
    /\ prompt = "none"
    /\ promptAt = 0
    /\ outcome = "none"
    /\ action \in ActionSet
    /\ twist = "none"
    /\ speed \in Speeds
    /\ pc = "call"

GetTwist ==
    /\ pc = "call"
    /\ twist' = get_twist_for_action(action, speed)
    /\ pc' = "done"
    /\ UNCHANGED <<description, published, alive, updates, samples, angle,
                   confidence, proposals, prompt, promptAt, outcome, action,
                   speed>>

NextTwist == GetTwist

SpecTwist == InitTwist /\ [][NextTwist]_vars

-----------------------------------------------------------------------------
(* Vocabulary of the properties, stated over the inputs of the last call    *)

\* Proposal i's text holds the keyword of the k-th action of the enum.
Matches(lowered, k) == In(value(Action[k]), lowered)

\* The (proposal, action) pairs that match: positions, not a list.
Pairs ==
    UNION { LET lowered == lower(generated_text(proposals[i]))
            IN  { <<i, k>> : k \in { j \in 1..Len(Action) : Matches(lowered, j) } }
          : i \in 1..Len(proposals) }

\* The score of a pair: the value of its action times the confidence.
PairScore(p) == get_value(Action[p[2]]) * confidence

\* Scan order: proposals in list order, actions in enum order within one.
Before(p, q) == p[1] < q[1] \/ (p[1] = q[1] /\ p[2] < q[2])

Diagonals ==
    { "MOVE_FORWARD_LEFT", "MOVE_FORWARD_RIGHT",
      "MOVE_BACKWARD_LEFT", "MOVE_BACKWARD_RIGHT" }

\* The description in force after the first n context updates.
DescriptionAfter(n) == IF n = 0 THEN DefaultDescription ELSE updates[n]

-----------------------------------------------------------------------------
(* Properties *)

\* C1: whatever the confidence, when no proposal's lowercased text holds any
\* of the 11 keywords (the empty list included), select_action returns STOP
\* and the velocity command is (0, 0, 0).
C1_NoKeywordStop ==
    (pc = "done" /\ Pairs = {}) => (action = "STOP" /\ twist = ZeroTwist)

C1_Witness ==
    /\ pc = "done"
    /\ proposals = << Proposal("move forward now"), Proposal("just wait here") >>
    /\ confidence = 9
    /\ Pairs = {}
    /\ action = "STOP"
    /\ twist = ZeroTwist

\* C2, as claimed: with confidence 0, select_action returns STOP whatever the
\* proposals hold.
C2_ZeroConfidenceStop ==
    (pc = "done" /\ confidence = 0) => action = "STOP"

\* C2, amended: with confidence 0 every score is 0, and select_action
\* returns the action of the first matching pair in scan order (first
\* proposal with a match, first matching action in enum order); STOP only
\* when nothing matches or that first match is STOP.
C2_ZeroConfidenceFirstMatch ==
    (pc = "done" /\ confidence = 0) =>
        IF Pairs = {}
        THEN action = "STOP"
        ELSE \E p \in Pairs :
                /\ \A q \in Pairs : q = p \/ Before(p, q)
                /\ action = Action[p[2]]

C2_Witness ==
    /\ pc = "done"
    /\ confidence = 0
    /\ proposals = << Proposal("turn or move_right"),
                      Proposal("STOP then move_forward") >>
    /\ action = "MOVE_RIGHT"

\* C3: when some proposal holds a keyword, the returned action belongs to a
\* matching pair whose score value(action) * confidence is the maximum over
\* all matching pairs, and no pair earlier in scan order has that score.
C3_MaxScoreFirstInScanOrder ==
    (pc = "done" /\ Pairs # {}) =>
        \E p \in Pairs :
            /\ action = Action[p[2]]
            /\ \A q \in Pairs : PairScore(q) <= PairScore(p)
            /\ \A q \in Pairs : Before(q, p) => PairScore(q) < PairScore(p)

C3_Witness ==
    /\ pc = "done"
    /\ confidence = 5
    /\ proposals = << Proposal("turn or move_right"), Proposal("move_left") >>
    /\ PairScore(<<1, 4>>) = PairScore(<<2, 3>>)
    /\ action = "MOVE_RIGHT"

\* C4: with the default value table, confidence 0.5 and the proposals
\* "move_forward_left please", "spin_clockwise too", the only scored pairs
\* are MOVE_FORWARD_LEFT at 0.225 and SPIN_CLOCKWISE at 0.15, the result is
\* MOVE_FORWARD_LEFT and the command is (s*d, s*d, 0) with s = 0.2.
C4_ForwardLeftScenario ==
    ( /\ pc = "done"
      /\ confidence = 5
      /\ proposals = << Proposal("move_forward_left please"),
                        Proposal("spin_clockwise too") >> )
    => /\ Scores(proposals, confidence) =
              << <<"MOVE_FORWARD_LEFT", 225>>, <<"SPIN_CLOCKWISE", 150>> >>
       /\ action = "MOVE_FORWARD_LEFT"
       /\ twist = Twist(FMul(DEFAULT_SPEED, DIAGONAL_FACTOR),
                        FMul(DEFAULT_SPEED, DIAGONAL_FACTOR), 0)

\* The sample of C5: context "quiet room", angle 45.0, confidence 0.9, and
\* one proposal with the given text, handled by sound_callback.
C5_Sample(text) ==
    /\ outcome = "published"
    /\ prompt = Prompt("quiet room", 45, 9)
    /\ angle = 45
    /\ confidence = 9
    /\ proposals = << Proposal(text) >>

\* C5, as claimed: for the proposal "move forward now" (words separated by
\* spaces) the result is MOVE_FORWARD and the command (0.2, 0, 0).
C5_SpacesMoveForward ==
    C5_Sample("move forward now") =>
        /\ action = "MOVE_FORWARD"
        /\ published[Len(published)] = Twist(DEFAULT_SPEED, 0, 0)

\* C5, amended: for the proposal "move_forward now" (the keyword with its
\* underscore) the result is MOVE_FORWARD and the command (0.2, 0, 0); for
\* "move forward now" no keyword matches, the result is STOP and the command
\* (0, 0, 0).
C5_UnderscoreMoveForward ==
    /\ C5_Sample("move_forward now") =>
          /\ action = "MOVE_FORWARD"
          /\ published[Len(published)] = Twist(DEFAULT_SPEED, 0, 0)
    /\ C5_Sample("move forward now") =>
          /\ action = "STOP"
          /\ published[Len(published)] = ZeroTwist

C5_Witness ==
    /\ C5_Sample("move_forward now")
    /\ action = "MOVE_FORWARD"
    /\ published[Len(published)] = Twist(2000, 0, 0)

\* The mapping table of the motion controller, component by component, with
\* sd the diagonal magnitude s * cos(pi/4).
TableTwist(a, s) ==
    LET sd == FMul(s, DIAGONAL_FACTOR)
    IN  [ linear_x |->
            CASE a = "MOVE_FORWARD"                                  -> s
              [] a = "MOVE_BACKWARD"                                 -> -s
              [] a \in {"MOVE_FORWARD_LEFT", "MOVE_FORWARD_RIGHT"}   -> sd
              [] a \in {"MOVE_BACKWARD_LEFT", "MOVE_BACKWARD_RIGHT"} -> -sd
              [] OTHER                                               -> 0,
          linear_y |->
            CASE a = "MOVE_LEFT"                                     -> s
              [] a = "MOVE_RIGHT"                                    -> -s
              [] a \in {"MOVE_FORWARD_LEFT", "MOVE_BACKWARD_LEFT"}   -> sd
              [] a \in {"MOVE_FORWARD_RIGHT", "MOVE_BACKWARD_RIGHT"} -> -sd
              [] OTHER                                               -> 0,
          angular_z |->
            CASE a = "SPIN_CLOCKWISE"                                -> -s
              [] a = "SPIN_COUNTERCLOCKWISE"                         -> s
              [] OTHER                                               -> 0 ]

\* C6: get_twist_for_action yields, for each of the 11 actions and every
\* speed s, the Twist of the mapping table: one linear component +s or -s for
\* the axis moves, |linear_x| = |linear_y| = s*d with the tabled signs and
\* angular_z = 0 for the diagonals, angular_z alone for the spins (clockwise
\* -s, counterclockwise +s), and (0, 0, 0) for STOP.
C6_TwistTable ==
    pc = "done" =>
        /\ twist = TableTwist(action, speed)
        /\ action \in Diagonals =>
              /\ Abs(twist.linear_x) = Abs(FMul(speed, DIAGONAL_FACTOR))
              /\ Abs(twist.linear_y) = Abs(twist.linear_x)
              /\ twist.angular_z = 0

C6_Witness ==
    /\ pc = "done"
    /\ action = "MOVE_BACKWARD_RIGHT"
    /\ speed = DEFAULT_SPEED
    /\ twist = Twist(-1414, -1414, 0)

\* C7: when language_model.generate raises for a sample, the sample counts
\* as STOP: a (0, 0, 0) command is published for it and the node goes on
\* running.
C7_FailureYieldsStop ==
    outcome = "raised" =>
        /\ alive
        /\ Len(published) = samples
        /\ published[Len(published)] = ZeroTwist

\* C8: every sound sample delivered has exactly one command published for
\* it, context updates publish none, and the command of the last sample is
\* get_twist_for_action of the action select_action returns for it.
C8_OneCommandPerSample ==
    /\ Len(published) = samples
    /\ samples > 0 =>
          published[samples] =
              get_twist_for_action(select_action(proposals, confidence),
                                   DEFAULT_SPEED)

\* C9: the description is the text of the latest context update (the default
\* before the first), whatever samples were handled in between, and the
\* prompt of the last sample embeds the description in force when that
\* sample arrived.
C9_DescriptionIsLatestUpdate ==
    /\ description = DescriptionAfter(Len(updates))
    /\ samples > 0 => prompt[2] = DescriptionAfter(promptAt)

C9_Witness ==
    /\ samples = 2
    /\ Len(updates) = 2
    /\ promptAt = 1
    /\ updates[1] = "noisy hall"
    /\ updates[2] = "quiet room"
    /\ prompt[2] = "noisy hall"
    /\ description = "quiet room"

\* C10: with the default value table and a confidence above 0, select_action
\* never returns one of the four diagonal actions: a text that holds a
\* diagonal keyword holds "move_forward" or "move_backward" too, which scores
\* higher and comes earlier in the enum.
C10_NoDiagonalWhenConfident ==
    (pc = "done" /\ confidence > 0) => action \notin Diagonals

C10_Witness ==
    /\ pc = "done"
    /\ confidence = 5
    /\ proposals = << Proposal("go move_backward_left"),
                      Proposal("Move_Forward_Right") >>
    /\ action = "MOVE_FORWARD"

====
